---- MODULE Spec2Model ----
(***************************************************************************)
(* State-machine model of smore.apispec.core: the Path entry (operation    *)
(* key correction, update, to_dict) and the APISpec registry (add_path,    *)
(* definition, setup_plugin, register_definition_helper,                   *)
(* register_path_helper, to_dict).                                         *)
(*                                                                         *)
(* Python values are modelled as follows.  A scalar (a path template, a    *)
(* method, a schema value) is the string of its literal; None is the       *)
(* string "None".  A dict held by the registry is a function from its keys *)
(* to its values (dict equality ignores order).  An operation passed by a  *)
(* caller is the sequence of its (key, value) items in the order items()   *)
(* yields them, because _serialize_operation iterates over it.             *)
(***************************************************************************)
EXTENDS Integers, Sequences, FiniteSets, TLC

VARIABLES
    _definitions,         \* APISpec._definitions: name -> schema dict
    _paths,               \* APISpec._paths: path template -> (method -> operation)
    _plugins,             \* APISpec._plugins: the keys of the dict (plugin import paths)
    _definition_helpers,  \* APISpec._definition_helpers: list of helper callables
    _path_helpers,        \* APISpec._path_helpers: list of helper callables
    setup_calls,          \* history: how often each plugin module's setup() was invoked
    added,                \* history: (path, method) -> operation of the last successful add_path for that pair
    last                  \* history: the last call made on the registry, its arguments and outcome

vars == <<_definitions, _paths, _plugins, _definition_helpers, _path_helpers,
          setup_calls, added, last>>

----------------------------------------------------------------------------
(* Bounds of the model *)

\* longest operation literal a caller passes to add_path
MaxOpLen == 2
\* longest helper list explored (the lists are unbounded in the code)
MaxHelpers == 2
\* most setup() invocations of one plugin module explored
MaxSetupCalls == 2

----------------------------------------------------------------------------
(* Python values *)

None == "None"

\* Python truthiness of the literals used: None, '', {} and [] are falsy
Truthy(x) == x \notin {None, "", "{}", "[]"}

\* str.lower() on the method strings used
lower(s) ==
    CASE s = "GET" -> "get"
      [] s = "get" -> "get"
      [] s = "POST" -> "post"
      [] s = "Post" -> "post"
      [] s = "post" -> "post"
      [] OTHER -> s

EmptyDict == <<>>

\* d[k] = v
dict_set(d, k, v) == [x \in DOMAIN d \cup {k} |-> IF x = k THEN v ELSE d[x]]

\* d.update(e): shallow, e's keys win
dict_update(d, e) == [x \in DOMAIN d \cup DOMAIN e |-> IF x \in DOMAIN e THEN e[x] ELSE d[x]]

\* d.get(k, default)
dict_get(d, k, default) == IF k \in DOMAIN d THEN d[k] ELSE default

----------------------------------------------------------------------------
(* _serialize_operation and Path *)

_PATH_CORRECTIONS ==
    [k \in {"operation_id", "external_docs"} |->
        IF k = "operation_id" THEN "operationId" ELSE "externalDocs"]

\* the dict comprehension: items are visited in order, each sets its corrected key
RECURSIVE comprehension(_, _)
comprehension(items, acc) ==
    IF items = <<>> THEN acc
    ELSE comprehension(Tail(items),
                       dict_set(acc, dict_get(_PATH_CORRECTIONS, Head(items)[1], Head(items)[1]),
                                Head(items)[2]))

\* _serialize_operation that copies the keys as they are
_serialize_operation_keeping_keys(items) ==
    [k \in {items[i][1] : i \in 1..Len(items)} |->
        items[CHOOSE i \in 1..Len(items) : items[i][1] = k][2]]

_serialize_operation(items) == comprehension(items, EmptyDict)

\* an operation argument: absent (None) or a dict literal given by its items
NoOperation == [none |-> TRUE, items |-> <<>>]
Operation(items) == [none |-> FALSE, items |-> items]

\* operation or {}
or_empty(operation) == IF operation.none \/ operation.items = <<>> THEN <<>> ELSE operation.items

\* Path.__init__
Path(path, method, operation) ==
    [path |-> path, method |-> method, operation |-> _serialize_operation(or_empty(operation))]

\* Path.to_dict that stores the method as given, not lowercased
Path_to_dict_without_lower(self) ==
    IF ~Truthy(self.path) THEN [exc |-> "APISpecError", value |-> EmptyDict]
    ELSE IF ~Truthy(self.method) THEN [exc |-> "APISpecError", value |-> EmptyDict]
    ELSE [exc |-> None,
          value |-> [p \in {self.path} |-> [m \in {self.method} |-> self.operation]]]

\* Path.to_dict that forgets the check of the method
Path_to_dict_unchecked_method(self) ==
    IF ~Truthy(self.path) THEN [exc |-> "APISpecError", value |-> EmptyDict]
    ELSE [exc |-> None,
          value |-> [p \in {self.path} |-> [m \in {lower(self.method)} |-> self.operation]]]

\* Path.to_dict: the rendered fragment, or the error raised
Path_to_dict(self) ==
    IF ~Truthy(self.path) THEN [exc |-> "APISpecError", value |-> EmptyDict]
    ELSE IF ~Truthy(self.method) THEN [exc |-> "APISpecError", value |-> EmptyDict]
    ELSE [exc |-> None,
          value |-> [p \in {self.path} |-> [m \in {lower(self.method)} |-> self.operation]]]

\* Path.update in which the receiver's operation fields win over the incoming ones
Path_update_keeping_own(self, path) ==
    [path |-> IF Truthy(path.path) THEN path.path ELSE self.path,
     method |-> IF Truthy(path.method) THEN path.method ELSE self.method,
     operation |-> dict_update(path.operation, self.operation)]

\* Path.update
\* a merge that takes the other entry's path and method even when they are falsy
Path_update_overwriting(self, path) ==
    [path |-> path.path, method |-> path.method,
     operation |-> dict_update(self.operation, path.operation)]

\* a merge that replaces the operation by the other entry's operation
Path_update_replacing_operation(self, path) ==
    [path |-> IF Truthy(path.path) THEN path.path ELSE self.path,
     method |-> IF Truthy(path.method) THEN path.method ELSE self.method,
     operation |-> path.operation]

Path_update(self, path) ==
    [path |-> IF Truthy(path.path) THEN path.path ELSE self.path,
     method |-> IF Truthy(path.method) THEN path.method ELSE self.method,
     operation |-> dict_update(self.operation, path.operation)]

----------------------------------------------------------------------------
(* Helper callables and plugin modules: the registry's collaborators *)

\* A path helper func(path=..., method=..., operation=..., **kwargs) returns a Path.
\*   "H1" documents the operation and passes the caller's path and method through;
\*   "H2" derives path, method and operation fields itself (as a view introspector does).
path_helper(func, path, method, operation) ==
    CASE func = "H1" -> Path(path, method, Operation(<< <<"summary", "a">> >>))
      [] func = "H2" -> Path("/b", "POST",
                             Operation(<< <<"summary", "b">>, <<"operation_id", "b">> >>))

PathHelpers == {"H1", "H2"}

\* the extra keyword arguments of an add_path call (**kwargs): none, or doc='b'
NoKwargs == EmptyDict
KwargsArgs == {NoKwargs, [k \in {"doc"} |-> "b"]}

\* A path helper called with the caller's keyword arguments as well.
\*   "H3" reads the keyword argument doc and documents the operation with it;
\*   "HX" raises and returns nothing; the other helpers ignore the keyword arguments.
path_helper_kwargs(func, path, method, operation, kwargs) ==
    CASE func = "H3" -> Path(None, None,
                             IF "doc" \in DOMAIN kwargs
                             THEN Operation(<< <<"summary", kwargs["doc"]>> >>)
                             ELSE NoOperation)
      [] func = "HX" -> Path(None, None, NoOperation)
      [] OTHER -> path_helper(func, path, method, operation)

\* the exception a helper raises when it is called (None: it returns)
helper_raises(func) == IF func \in {"HX", "DX"} THEN "ValueError" ELSE None

\* A definition helper func(name, **kwargs) returns a dict.
definition_helper(func, name) ==
    CASE func = "D1" -> [k \in {"type", "properties"} |->
                            IF k = "type" THEN "object" ELSE "D1.properties"]
      [] func = "D2" -> [k \in {"properties", "enum"} |->
                            IF k = "properties" THEN "D2.properties" ELSE "D2.enum"]
      [] func = "DX" -> EmptyDict

DefinitionHelpers == {"D1", "D2"}

\* What __import__ finds for each plugin path: nothing (ImportError), a module without
\* setup, or a module whose setup(spec) makes the listed calls on the registry.
Call(name, arg) == [call |-> name, arg |-> arg]

Modules ==
    [p \in {"missing", "nosetup", "p1", "p2", "pbad", "pfail", "pself"} |->
        CASE p = "missing" -> [importable |-> FALSE, has_setup |-> FALSE, setup |-> <<>>]
          [] p = "nosetup" -> [importable |-> TRUE, has_setup |-> FALSE, setup |-> <<>>]
          [] p = "p1" -> [importable |-> TRUE, has_setup |-> TRUE,
                          setup |-> << Call("register_path_helper", "H1"),
                                       Call("register_definition_helper", "D1") >>]
          [] p = "p2" -> [importable |-> TRUE, has_setup |-> TRUE,
                          setup |-> << Call("setup_plugin", "p1"),
                                       Call("register_path_helper", "H2") >>]
          [] p = "pbad" -> [importable |-> TRUE, has_setup |-> TRUE,
                            setup |-> << Call("register_definition_helper", "D2"),
                                         Call("setup_plugin", "missing") >>]
          [] p = "pfail" -> [importable |-> TRUE, has_setup |-> TRUE,
                             setup |-> << Call("register_path_helper", "H2"),
                                          Call("raise", "RuntimeError") >>]
          [] p = "pself" -> [importable |-> TRUE, has_setup |-> TRUE,
                             setup |-> << Call("setup_plugin", "pself") >>]]

PluginPaths == DOMAIN Modules

\* nested setup_plugin frames the interpreter allows before it raises RecursionError
RecursionLimit == 2

----------------------------------------------------------------------------
(* APISpec *)

\* the registry fields a plugin's setup(spec) can reach
Registry ==
    [plugins |-> _plugins, definition_helpers |-> _definition_helpers,
     path_helpers |-> _path_helpers, setup_calls |-> setup_calls]

Returned(reg) == [reg |-> reg, exc |-> None]
Raised(reg, exc) == [reg |-> reg, exc |-> exc]

\* register_definition_helper that inserts the helper in front of the list
register_definition_helper_in_front(reg, func) ==
    [reg EXCEPT !.definition_helpers = <<func>> \o @]

\* APISpec.register_definition_helper
register_definition_helper(reg, func) ==
    [reg EXCEPT !.definition_helpers = Append(@, func)]

\* APISpec.register_path_helper
register_path_helper(reg, func) ==
    [reg EXCEPT !.path_helpers = Append(@, func)]

\* APISpec.setup_plugin, called at nesting depth `depth`, and the module's setup(spec)
RECURSIVE setup_plugin(_, _, _)
RECURSIVE mod_setup(_, _, _)

\* setup_plugin without its early return for an initialized plugin
setup_plugin_without_guard(reg, path, depth) ==
    IF depth > RecursionLimit THEN Raised(reg, "RecursionError")
    ELSE IF ~Modules[path].importable THEN Raised(reg, "PluginError")
    ELSE IF ~Modules[path].has_setup THEN Raised(reg, "PluginError")
    ELSE LET r == mod_setup([reg EXCEPT !.setup_calls[path] = @ + 1],
                            Modules[path].setup, depth)
         IN  IF r.exc # None THEN r
             ELSE Returned([r.reg EXCEPT !.plugins = @ \cup {path}])

\* setup_plugin that records the plugin before it calls the module's setup
setup_plugin_recording_first(reg, path, depth) ==
    IF depth > RecursionLimit THEN Raised(reg, "RecursionError")
    ELSE IF path \in reg.plugins THEN Returned(reg)
    ELSE IF ~Modules[path].importable THEN Raised(reg, "PluginError")
    ELSE IF ~Modules[path].has_setup THEN Raised(reg, "PluginError")
    ELSE mod_setup([reg EXCEPT !.setup_calls[path] = @ + 1, !.plugins = @ \cup {path}],
                   Modules[path].setup, depth)

setup_plugin(reg, path, depth) ==
    IF depth > RecursionLimit THEN Raised(reg, "RecursionError")
    ELSE IF path \in reg.plugins THEN Returned(reg)
    ELSE IF ~Modules[path].importable THEN Raised(reg, "PluginError")
    ELSE IF ~Modules[path].has_setup THEN Raised(reg, "PluginError")
    ELSE LET r == mod_setup([reg EXCEPT !.setup_calls[path] = @ + 1],
                            Modules[path].setup, depth)
         IN  IF r.exc # None THEN r
             ELSE Returned([r.reg EXCEPT !.plugins = @ \cup {path}])

mod_setup(reg, steps, depth) ==
    IF steps = <<>> THEN Returned(reg)
    ELSE LET s == Head(steps) IN
         CASE s.call = "register_definition_helper" ->
                  mod_setup(register_definition_helper(reg, s.arg), Tail(steps), depth)
           [] s.call = "register_path_helper" ->
                  mod_setup(register_path_helper(reg, s.arg), Tail(steps), depth)
           [] s.call = "setup_plugin" ->
                  LET r == setup_plugin(reg, s.arg, depth + 1)
                  IN  IF r.exc # None THEN r ELSE mod_setup(r.reg, Tail(steps), depth)
           [] s.call = "raise" -> Raised(reg, s.arg)

\* one call func(path=path, method=method, operation=operation, **kwargs)
Invocation(func, path, method, operation, kwargs) ==
    [func |-> func, path |-> path, method |-> method, operation |-> operation,
     kwargs |-> kwargs]

\* the helper calls the loop of add_path makes, each with the arguments the helper
\* receives; the loop ends at a helper that raises
RECURSIVE helper_calls(_, _, _, _, _)
RECURSIVE helper_calls_passing_entry(_, _, _, _, _)

\* the loop of add_path passing on the path and method of the entry built so far
\* instead of the caller's arguments
helper_calls_passing_entry(helpers, path, method, operation, kwargs) ==
    IF helpers = <<>> THEN <<>>
    ELSE LET base == Path_update(Path(path, method, operation),
                                 path_helper_kwargs(Head(helpers), path, method,
                                                    operation, kwargs))
         IN  << Invocation(Head(helpers), path, method, operation, kwargs) >>
             \o helper_calls_passing_entry(Tail(helpers), base.path, base.method,
                                           operation, kwargs)

helper_calls(helpers, path, method, operation, kwargs) ==
    IF helpers = <<>> THEN <<>>
    ELSE IF helper_raises(Head(helpers)) # None
         THEN << Invocation(Head(helpers), path, method, operation, kwargs) >>
         ELSE << Invocation(Head(helpers), path, method, operation, kwargs) >>
              \o helper_calls(Tail(helpers), path, method, operation, kwargs)

\* the exception that ends the loop over the helpers (None: every helper returned)
calls_exc(calls) ==
    IF calls = <<>> THEN None ELSE helper_raises(calls[Len(calls)].func)

\* base.update(func(...)) for each call that returned, in order
RECURSIVE fold_calls(_, _)
fold_calls(base, calls) ==
    IF calls = <<>> THEN base
    ELSE IF helper_raises(Head(calls).func) # None THEN base
    ELSE fold_calls(Path_update(base,
                                path_helper_kwargs(Head(calls).func, Head(calls).path,
                                                   Head(calls).method, Head(calls).operation,
                                                   Head(calls).kwargs)),
                    Tail(calls))

\* the loop of add_path: base.update(func(path=path, method=method, operation=operation))
fold_path_helpers(base, helpers, path, method, operation) ==
    fold_calls(base, helper_calls(helpers, path, method, operation, NoKwargs))

\* the loop of definition: ret.update(func(name)); it ends at a helper that raises
RECURSIVE fold_definition_helpers(_, _, _)
fold_definition_helpers(ret, helpers, name) ==
    IF helpers = <<>> THEN ret
    ELSE IF helper_raises(Head(helpers)) # None THEN ret
    ELSE fold_definition_helpers(dict_update(ret, definition_helper(Head(helpers), name)),
                                 Tail(helpers), name)

\* the exception a definition helper raises in the loop of definition (None: none does)
definition_exc ==
    IF \E i \in 1..Len(_definition_helpers) : helper_raises(_definition_helpers[i]) # None
    THEN "ValueError" ELSE None

\* the entry add_path renders: the literal arguments with every helper's result folded in
path_entry_kwargs(path, method, operation, kwargs) ==
    fold_calls(Path(path, method, operation),
               helper_calls(_path_helpers, path, method, operation, kwargs))

\* the entry of a call without extra keyword arguments
path_entry(path, method, operation) ==
    path_entry_kwargs(path, method, operation, NoKwargs)

\* an update of _paths that merges down to the fields of the operations
paths_update_deep(paths, fragment) ==
    [p \in DOMAIN paths \cup DOMAIN fragment |->
        IF p \notin DOMAIN fragment THEN paths[p]
        ELSE IF p \notin DOMAIN paths THEN fragment[p]
        ELSE [m \in DOMAIN paths[p] \cup DOMAIN fragment[p] |->
                IF m \notin DOMAIN fragment[p] THEN paths[p][m]
                ELSE IF m \notin DOMAIN paths[p] THEN fragment[p][m]
                ELSE dict_update(paths[p][m], fragment[p][m])]]

\* self._paths.update(base.to_dict())
paths_update(paths, fragment) == dict_update(paths, fragment)

\* a definition in which the helpers' results are merged over the literal arguments
definition_ret_helpers_last(name, properties, enum) ==
    LET ret0 == IF Truthy(properties) THEN dict_set(EmptyDict, "properties", properties)
                ELSE EmptyDict
        ret1 == IF Truthy(enum) THEN dict_set(ret0, "enum", enum) ELSE ret0
    IN  fold_definition_helpers(ret1, _definition_helpers, name)

\* the dict definition stores
definition_ret(name, properties, enum) ==
    LET ret0 == fold_definition_helpers(EmptyDict, _definition_helpers, name)
        ret1 == IF Truthy(properties) THEN dict_set(ret0, "properties", properties) ELSE ret0
    IN  IF Truthy(enum) THEN dict_set(ret1, "enum", enum) ELSE ret1

----------------------------------------------------------------------------
(* The registry as a state machine *)

\* APISpec.__init__ with plugins=()
Init ==
    /\ _definitions = EmptyDict
    /\ _paths = EmptyDict
    /\ _plugins = {}
    /\ _definition_helpers = <<>>
    /\ _path_helpers = <<>>
    /\ setup_calls = [p \in PluginPaths |-> 0]
    /\ added = EmptyDict
    /\ last = [op |-> "__init__"]

\* an add_path that stores what was folded before a helper raised
add_path_kwargs_storing_partial(path, method, operation, kwargs) ==
    LET calls == helper_calls(_path_helpers, path, method, operation, kwargs)
        r == Path_to_dict(fold_calls(Path(path, method, operation), calls))
    IN  /\ _paths' = IF r.exc = None THEN paths_update(_paths, r.value) ELSE _paths
        /\ last' = [op |-> "add_path", path |-> path, method |-> method,
                    operation |-> operation, kwargs |-> kwargs,
                    exc |-> IF calls_exc(calls) # None THEN calls_exc(calls) ELSE r.exc,
                    calls |-> calls, replaced |-> FALSE]
        /\ UNCHANGED <<_definitions, _plugins, _definition_helpers, _path_helpers, setup_calls>>

\* spec.add_path(path, method, operation, **kwargs)
add_path_kwargs(path, method, operation, kwargs) ==
    LET calls == helper_calls(_path_helpers, path, method, operation, kwargs)
        base == fold_calls(Path(path, method, operation), calls)
        r == IF calls_exc(calls) # None
             THEN [exc |-> calls_exc(calls), value |-> EmptyDict]
             ELSE Path_to_dict(base)
    IN  /\ _paths' = IF r.exc = None THEN paths_update(_paths, r.value) ELSE _paths
        /\ last' = [op |-> "add_path", path |-> path, method |-> method,
                    operation |-> operation, kwargs |-> kwargs, exc |-> r.exc,
                    \* the helper calls made, with the arguments each helper received
                    calls |-> calls,
                    \* whether the pair the call resolves to was in _paths before the call
                    replaced |-> /\ r.exc = None
                                 /\ base.path \in DOMAIN _paths
                                 /\ lower(base.method) \in DOMAIN _paths[base.path]]
        /\ UNCHANGED <<_definitions, _plugins, _definition_helpers, _path_helpers, setup_calls>>

\* spec.add_path(path, method, operation)
add_path(path, method, operation) == add_path_kwargs(path, method, operation, NoKwargs)

\* the history of successful add_path calls, kept beside add_path
track_added(path, method, operation) ==
    LET base == path_entry(path, method, operation) IN
    added' = IF Path_to_dict(base).exc = None
             THEN dict_set(added, <<base.path, lower(base.method)>>, base.operation)
             ELSE added

\* spec.definition(name, properties, enum)
\* a definition call that merges into the definition already stored under the name
definition_merging_earlier(name, properties, enum) ==
    /\ _definitions' = dict_set(_definitions, name,
                                dict_update(dict_get(_definitions, name, EmptyDict),
                                            definition_ret(name, properties, enum)))
    /\ last' = [op |-> "definition", name |-> name, properties |-> properties,
                enum |-> enum, exc |-> None, redefined |-> name \in DOMAIN _definitions]
    /\ UNCHANGED <<_paths, _plugins, _definition_helpers, _path_helpers, setup_calls, added>>

definition(name, properties, enum) ==
    /\ _definitions' = IF definition_exc # None THEN _definitions
                       ELSE dict_set(_definitions, name, definition_ret(name, properties, enum))
    /\ last' = [op |-> "definition", name |-> name, properties |-> properties,
                enum |-> enum, exc |-> definition_exc,
                \* whether the name was in _definitions before the call
                redefined |-> name \in DOMAIN _definitions]
    /\ UNCHANGED <<_paths, _plugins, _definition_helpers, _path_helpers, setup_calls, added>>

\* spec.setup_plugin(path), called by the user of the registry
SetupPlugin(path) ==
    LET r == setup_plugin(Registry, path, 1) IN
    /\ Len(r.reg.definition_helpers) <= MaxHelpers
    /\ Len(r.reg.path_helpers) <= MaxHelpers
    /\ \A p \in PluginPaths : r.reg.setup_calls[p] <= MaxSetupCalls
    /\ _plugins' = r.reg.plugins
    /\ _definition_helpers' = r.reg.definition_helpers
    /\ _path_helpers' = r.reg.path_helpers
    /\ setup_calls' = r.reg.setup_calls
    /\ last' = [op |-> "setup_plugin", path |-> path, exc |-> r.exc,
                \* whether the call took the early return of an initialized plugin
                known |-> path \in _plugins]
    /\ UNCHANGED <<_definitions, _paths, added>>

\* spec.register_definition_helper(func), called by the user of the registry
RegisterDefinitionHelper(func) ==
    /\ Len(_definition_helpers) < MaxHelpers
    /\ _definition_helpers' = register_definition_helper(Registry, func).definition_helpers
    /\ last' = [op |-> "register_definition_helper", func |-> func, exc |-> None]
    /\ UNCHANGED <<_definitions, _paths, _plugins, _path_helpers, setup_calls, added>>

\* spec.register_path_helper(func), called by the user of the registry
RegisterPathHelper(func) ==
    /\ Len(_path_helpers) < MaxHelpers
    /\ _path_helpers' = register_path_helper(Registry, func).path_helpers
    /\ last' = [op |-> "register_path_helper", func |-> func, exc |-> None]
    /\ UNCHANGED <<_definitions, _paths, _plugins, _definition_helpers, setup_calls, added>>

\* spec.to_dict()
to_dict == [definitions |-> _definitions, paths |-> _paths]

----------------------------------------------------------------------------
(* The arguments explored *)

PathArgs == {None, "", "/a", "/b"}
MethodArgs == {None, "GET", "get", "POST"}
OpKeys == {"operation_id", "operationId", "external_docs", "externalDocs", "summary"}
OpVals == {"a", "b"}

\* the dict literals of at most n items: sequences of items with distinct keys
Items(keys, n) ==
    UNION {{s \in [1..len -> keys \X OpVals] :
               \A i, j \in 1..len : i # j => s[i][1] # s[j][1]} : len \in 0..n}

OperationArgs(keys, n) == {NoOperation} \cup {Operation(s) : s \in Items(keys, n)}

DefinitionNames == {"Pet", "Cat"}
PropertiesArgs == {None, "{}", "P"}
EnumArgs == {None, "[]", "E"}

----------------------------------------------------------------------------
(* The whole registry, every operation, on few arguments *)

AddPath ==
    \E path \in {None, "/a"}, method \in {None, "GET"},
       operation \in {NoOperation, Operation(<< <<"summary", "a">> >>)} :
        add_path(path, method, operation) /\ UNCHANGED added

Definition ==
    \E name \in {"Pet"}, properties \in {None, "P"}, enum \in {None} :
        definition(name, properties, enum)

Next ==
    \/ AddPath
    \/ Definition
    \/ \E path \in {"missing", "p1", "p2"} : SetupPlugin(path)
    \/ \E func \in {"D2"} : RegisterDefinitionHelper(func)
    \/ \E func \in {"H2"} : RegisterPathHelper(func)

Spec == Init /\ [][Next]_vars

----------------------------------------------------------------------------
(* add_path and the path helpers *)

OperationsOfOne == OperationArgs({"operation_id", "summary"}, 1)

AddPathAll ==
    \E path \in {None, "/a"}, method \in {None, "GET", "POST"},
       operation \in OperationsOfOne :
        add_path(path, method, operation) /\ UNCHANGED added

NextPaths ==
    \/ AddPathAll
    \/ \E func \in PathHelpers : RegisterPathHelper(func)

SpecPaths == Init /\ [][NextPaths]_vars

----------------------------------------------------------------------------
(* add_path alone, with the history of its successful calls *)

AddPathTracked ==
    \E path \in {"/a", "/b"}, method \in {"GET", "get", "POST"},
       operation \in OperationArgs({"summary"}, 1) :
        add_path(path, method, operation) /\ track_added(path, method, operation)

SpecMerge == Init /\ [][AddPathTracked]_vars

----------------------------------------------------------------------------
(* definition and the definition helpers *)

DefinitionAll ==
    \E name \in DefinitionNames, properties \in PropertiesArgs, enum \in EnumArgs :
        definition(name, properties, enum)

NextDefinitions ==
    \/ DefinitionAll
    \/ \E func \in DefinitionHelpers : RegisterDefinitionHelper(func)

SpecDefinitions == Init /\ [][NextDefinitions]_vars

----------------------------------------------------------------------------
(* setup_plugin over every plugin module, and the helper registrations *)

NextPlugins ==
    \/ \E path \in PluginPaths : SetupPlugin(path)
    \/ \E func \in DefinitionHelpers : RegisterDefinitionHelper(func)
    \/ \E func \in PathHelpers : RegisterPathHelper(func)

SpecPlugins == Init /\ [][NextPlugins]_vars

----------------------------------------------------------------------------
(* One add_path on a freshly constructed registry, on every operation literal *)

AddPathFresh ==
    /\ last.op = "__init__"
    /\ _paths = EmptyDict
    /\ _path_helpers = <<>>
    /\ \E path \in PathArgs, method \in MethodArgs,
          operation \in OperationArgs(OpKeys, MaxOpLen) :
           add_path(path, method, operation) /\ UNCHANGED added

SpecFresh == Init /\ [][AddPathFresh]_vars

----------------------------------------------------------------------------
(* _serialize_operation as a function: applied to a literal, then to its own result *)

\* the orders in which items() may yield the items of dict d
dict_items(d) ==
    {s \in Items(DOMAIN d, Cardinality(DOMAIN d)) :
        /\ Len(s) = Cardinality(DOMAIN d)
        /\ \A i \in 1..Len(s) : s[i][2] = d[s[i][1]]}

Serialize ==
    \E items \in Items(OpKeys, MaxOpLen) :
        \E again \in dict_items(_serialize_operation(items)) :
            /\ last' = [op |-> "_serialize_operation", items |-> items,
                        result |-> _serialize_operation(items),
                        result_items |-> again,
                        result_again |-> _serialize_operation(again)]
            /\ UNCHANGED <<_definitions, _paths, _plugins, _definition_helpers,
                           _path_helpers, setup_calls, added>>

SpecSerialize == Init /\ [][Serialize]_vars

\* Definitions and paths together: every definition call, helpers registered directly,
\* and a few add_path calls.
NextData ==
    \/ NextDefinitions
    \/ AddPath

SpecData == Init /\ [][NextData]_vars

\* The helper protocol of add_path: calls with and without extra keyword arguments,
\* and helpers that pass the arguments through, supply their own, or read a keyword.
AddPathKwargs ==
    \E path \in {None, "/a"}, method \in {None, "GET"},
       operation \in {NoOperation, Operation(<< <<"summary", "a">> >>)},
       kwargs \in KwargsArgs :
        add_path_kwargs(path, method, operation, kwargs) /\ UNCHANGED added

NextCalls ==
    \/ AddPathKwargs
    \/ \E func \in {"H1", "H2", "H3"} : RegisterPathHelper(func)

SpecCalls == Init /\ [][NextCalls]_vars

\* Path.update on its own: one merge, and the same merge again, of two entries built
\* by the constructor from every path, method and small operation.
PathEntries ==
    {Path(path, method, operation) :
        path \in PathArgs, method \in {None, "GET", "POST"},
        operation \in OperationArgs({"summary", "operation_id"}, MaxOpLen)}

Update ==
    /\ last.op = "__init__"
    /\ \E self \in PathEntries, path \in PathEntries :
          last' = [op |-> "Path.update", self |-> self, path |-> path,
                   once |-> Path_update(self, path),
                   twice |-> Path_update(Path_update(self, path), path)]
    /\ UNCHANGED <<_definitions, _paths, _plugins, _definition_helpers,
                   _path_helpers, setup_calls, added>>

SpecUpdate == Init /\ [][Update]_vars

\* Method casing: calls for one path with a method in several casings, and helpers that
\* pass the caller's method through or supply "POST".
AddPathCased ==
    \E method \in {None, "GET", "get", "POST", "Post", "post"},
       operation \in {NoOperation, Operation(<< <<"summary", "a">> >>)} :
        add_path("/a", method, operation) /\ UNCHANGED added

NextMethods ==
    \/ AddPathCased
    \/ \E func \in PathHelpers : RegisterPathHelper(func)

SpecMethods == Init /\ [][NextMethods]_vars

\* Helpers that raise: add_path and definition calls with helpers registered directly,
\* among them a path helper and a definition helper that raise when called.
NextErrors ==
    \/ AddPath
    \/ Definition
    \/ \E func \in {"H2", "HX"} : RegisterPathHelper(func)
    \/ \E func \in {"D1", "DX"} : RegisterDefinitionHelper(func)

SpecErrors == Init /\ [][NextErrors]_vars

\* Alias keys: calls whose operation carries the snake_case aliases, and helpers that
\* return entries built by the Path constructor, one of them with an alias key.
AddPathAliased ==
    \E method \in {"GET", "POST"},
       operation \in OperationArgs({"operation_id", "external_docs"}, MaxOpLen) :
        add_path("/a", method, operation) /\ UNCHANGED added

NextAliases ==
    \/ AddPathAliased
    \/ \E func \in PathHelpers : RegisterPathHelper(func)

SpecAliases == Init /\ [][NextAliases]_vars

----------------------------------------------------------------------------
(* Properties *)

\* C1: once add_path has succeeded for (p, m1) and for (p, m2) with different lowercased
\* methods, in any order and with calls for other path templates in between,
\* to_dict()["paths"][p] holds both method keys, each with the operation of its own
\* last call: the later method-map is merged into the one already stored for p.
C1_BothMethodsUnderOnePath ==
    \A k1 \in DOMAIN added : \A k2 \in DOMAIN added :
        (k1[1] = k2[1] /\ k1[2] # k2[2]) =>
            /\ k1[1] \in DOMAIN to_dict.paths
            /\ {k1[2], k2[2]} \subseteq DOMAIN to_dict.paths[k1[1]]
            /\ to_dict.paths[k1[1]][k1[2]] = added[k1]
            /\ to_dict.paths[k1[1]][k2[2]] = added[k2]

\* C2: an add_path call whose entry, after every registered path helper is folded in,
\* has a falsy path or a falsy method raises APISpecError and leaves _paths and
\* _definitions as they were before the call.
C2_FailedAddPathChangesNothing ==
    [][ last'.op = "add_path" =>
          LET e == path_entry(last'.path, last'.method, last'.operation) IN
          (~Truthy(e.path) \/ ~Truthy(e.method)) =>
              /\ last'.exc = "APISpecError"
              /\ _paths' = _paths
              /\ _definitions' = _definitions ]_vars

\* a failed add_path on a registry that holds paths, definitions and path helpers
C2_Witness ==
    /\ last.op = "add_path"
    /\ last.exc = "APISpecError"
    /\ _paths # EmptyDict
    /\ _definitions # EmptyDict
    /\ _path_helpers # <<>>

\* C3: setup_plugin(x) on a plugin that is already initialized returns without error,
\* does not invoke the plugin's setup and leaves _plugins, both helper lists, _paths
\* and _definitions unchanged; so the setup of an initialized plugin has been invoked
\* exactly once, however many setup_plugin(x) calls were made.
C3_SetupPluginIdempotent ==
    [][ /\ (last'.op = "setup_plugin" /\ last'.path \in _plugins) =>
              /\ last'.exc = None
              /\ setup_calls' = setup_calls
              /\ _plugins' = _plugins
              /\ _definition_helpers' = _definition_helpers
              /\ _path_helpers' = _path_helpers
              /\ _paths' = _paths
              /\ _definitions' = _definitions
        /\ \A x \in _plugins' : setup_calls'[x] = 1 ]_vars

\* a repeated setup_plugin(x) on a registry that holds paths and definitions
C3_Witness ==
    /\ last.op = "setup_plugin"
    /\ last.known
    /\ last.exc = None
    /\ setup_calls[last.path] = 1
    /\ _paths # EmptyDict
    /\ _definitions # EmptyDict

\* C4 as claimed: a setup_plugin call that raises PluginError, from whichever
\* setup_plugin frame, leaves both helper lists as they were before the call.
C4_PluginErrorLeavesHelpers ==
    [][ (last'.op = "setup_plugin" /\ last'.exc = "PluginError") =>
            /\ _definition_helpers' = _definition_helpers
            /\ _path_helpers' = _path_helpers ]_vars

IsPrefix(s, t) == Len(s) <= Len(t) /\ SubSeq(t, 1, Len(s)) = s

\* C4 as amended: a setup_plugin(x) call that raises PluginError leaves both helper
\* lists as they were when x itself cannot be imported or has no setup; when the
\* error comes from a nested setup_plugin call made by x's setup, the helpers that
\* setup registered before the nested call stay registered: each list after the call
\* is the list before the call, possibly extended at its end.
C4_PluginErrorKeepsRegisteredHelpers ==
    [][ (last'.op = "setup_plugin" /\ last'.exc = "PluginError") =>
            /\ (~Modules[last'.path].importable \/ ~Modules[last'.path].has_setup) =>
                   /\ _definition_helpers' = _definition_helpers
                   /\ _path_helpers' = _path_helpers
            /\ IsPrefix(_definition_helpers, _definition_helpers')
            /\ IsPrefix(_path_helpers, _path_helpers') ]_vars

\* a PluginError from a nested setup_plugin call, after the plugin's own setup has
\* registered a helper behind one that was registered before
C4_Witness ==
    /\ last.op = "setup_plugin"
    /\ last.exc = "PluginError"
    /\ setup_calls[last.path] > 0
    /\ Len(_definition_helpers) = 2
    /\ _definition_helpers[1] # _definition_helpers[2]

\* C5: setup_plugin(x) raises PluginError when x cannot be imported and when the
\* module has no setup; after any setup_plugin(x) call that raises, x is not in
\* _plugins; a plugin enters _plugins only in a call that invoked its setup.
C5_OnlyCompletedSetupIsRecorded ==
    [][ last'.op = "setup_plugin" =>
          LET x == last'.path IN
          /\ (~Modules[x].importable \/ ~Modules[x].has_setup) => last'.exc = "PluginError"
          /\ last'.exc # None => x \notin _plugins'
          /\ \A y \in _plugins' \ _plugins :
                 /\ Modules[y].importable /\ Modules[y].has_setup
                 /\ setup_calls'[y] = setup_calls[y] + 1 ]_vars

\* a setup_plugin(x) call whose setup ran and raised, with other plugins initialized
C5_Witness ==
    /\ last.op = "setup_plugin"
    /\ last.exc # None
    /\ setup_calls[last.path] > 0
    /\ last.path \notin _plugins
    /\ _plugins # {}

\* the correction table as the specification states it
CamelCase(k) ==
    IF k = "operation_id" THEN "operationId"
    ELSE IF k = "external_docs" THEN "externalDocs"
    ELSE k

\* the items of an operation argument (none for an absent operation)
ItemsOf(operation) == IF operation.none THEN <<>> ELSE operation.items

\* item i of items is the last one, in iteration order, that is stored under its corrected key
LastForKey(items, i) ==
    \A j \in 1..Len(items) : CamelCase(items[j][1]) = CamelCase(items[i][1]) => j <= i

\* C6 as claimed: on a fresh registry without path helpers, add_path with a truthy
\* path and method succeeds and to_dict()["paths"] is exactly
\* {path: {lower(method): normalize(operation)}}: the keys are the operation's keys with
\* operation_id and external_docs renamed, and every item's value is kept under its
\* (renamed) key; an absent operation gives an empty mapping.
C6_FreshAddPathKeepsEveryValue ==
    (last.op = "add_path" /\ Truthy(last.path) /\ Truthy(last.method)) =>
        LET items == ItemsOf(last.operation) IN
        /\ last.exc = None
        /\ DOMAIN to_dict.paths = {last.path}
        /\ DOMAIN to_dict.paths[last.path] = {lower(last.method)}
        /\ DOMAIN to_dict.paths[last.path][lower(last.method)]
               = {CamelCase(items[i][1]) : i \in 1..Len(items)}
        /\ \A i \in 1..Len(items) :
               to_dict.paths[last.path][lower(last.method)][CamelCase(items[i][1])] = items[i][2]

\* C6 as amended: the same, except that when the operation holds both an alias and its
\* camelCase form, the camelCase key holds the value of whichever of the two comes
\* later in the mapping's iteration order, and the other value is dropped.
C6_FreshAddPathCorrectsKeys ==
    (last.op = "add_path" /\ Truthy(last.path) /\ Truthy(last.method)) =>
        LET items == ItemsOf(last.operation) IN
        /\ last.exc = None
        /\ DOMAIN to_dict.paths = {last.path}
        /\ DOMAIN to_dict.paths[last.path] = {lower(last.method)}
        /\ DOMAIN to_dict.paths[last.path][lower(last.method)]
               = {CamelCase(items[i][1]) : i \in 1..Len(items)}
        /\ \A i \in 1..Len(items) :
               LastForKey(items, i) =>
                   to_dict.paths[last.path][lower(last.method)][CamelCase(items[i][1])]
                       = items[i][2]

\* a successful add_path on a fresh registry, with an upper-case method and an operation
\* that holds an alias, its camelCase form with another value, and nothing else
C6_Witness ==
    /\ last.op = "add_path"
    /\ last.exc = None
    /\ last.method = "GET"
    /\ _paths # EmptyDict
    /\ \E i, j \in 1..Len(ItemsOf(last.operation)) :
           /\ ItemsOf(last.operation)[i][1] = "operation_id"
           /\ ItemsOf(last.operation)[j][1] = "operationId"
           /\ ItemsOf(last.operation)[i][2] # ItemsOf(last.operation)[j][2]

\* the operation fields each registered path helper returns for the last call's arguments
HelperOperations ==
    [i \in 1..Len(_path_helpers) |->
        path_helper(_path_helpers[i], last.path, last.method, last.operation).operation]

\* the caller's literal operation, its keys corrected
LiteralOperation ==
    LET items == ItemsOf(last.operation) IN
    [k \in {CamelCase(items[i][1]) : i \in 1..Len(items)} |->
        items[CHOOSE i \in 1..Len(items) : CamelCase(items[i][1]) = k /\ LastForKey(items, i)][2]]

\* C7: the operation a successful add_path stores has, for every key, the value of the
\* last helper in registration order whose result holds the key, and otherwise the value
\* of the caller's literal operation; this holds for every add_path call.
C7_LaterHelperWins ==
    (last.op = "add_path" /\ last.exc = None) =>
        LET e == path_entry(last.path, last.method, last.operation)
            stored == _paths[e.path][lower(e.method)]
            holders(k) == {i \in 1..Len(_path_helpers) : k \in DOMAIN HelperOperations[i]}
        IN  /\ DOMAIN stored = DOMAIN LiteralOperation
                                  \cup UNION {DOMAIN HelperOperations[i] : i \in 1..Len(_path_helpers)}
            /\ \A k \in DOMAIN stored :
                   IF holders(k) # {}
                   THEN stored[k] = HelperOperations[CHOOSE i \in holders(k) :
                                                        \A j \in holders(k) : j <= i][k]
                   ELSE stored[k] = LiteralOperation[k]

\* a successful add_path with two different helpers registered, both setting "summary",
\* and a literal operation that sets it too
C7_Witness ==
    /\ last.op = "add_path"
    /\ last.exc = None
    /\ Len(_path_helpers) = 2
    /\ _path_helpers[1] # _path_helpers[2]
    /\ "summary" \in DOMAIN LiteralOperation

\* the dict each registered definition helper returns for the last call's name
HelperDefinitions ==
    [i \in 1..Len(_definition_helpers) |-> definition_helper(_definition_helpers[i], last.name)]

\* C8: definition(name, properties, enum) stores the shallow merge of the helpers'
\* results in registration order (later helper wins), with 'properties' set to the
\* literal properties when that is truthy and 'enum' to the literal enum when that is
\* truthy; a falsy literal leaves the helpers' value in place; without helpers and with
\* only properties given the stored dict is exactly {'properties': properties}.
C8_DefinitionLiteralWins ==
    last.op = "definition" =>
        LET stored == to_dict.definitions[last.name]
            holders(k) == {i \in 1..Len(_definition_helpers) : k \in DOMAIN HelperDefinitions[i]}
        IN  /\ DOMAIN stored =
                   UNION {DOMAIN HelperDefinitions[i] : i \in 1..Len(_definition_helpers)}
                   \cup (IF Truthy(last.properties) THEN {"properties"} ELSE {})
                   \cup (IF Truthy(last.enum) THEN {"enum"} ELSE {})
            /\ \A k \in DOMAIN stored :
                   IF k = "properties" /\ Truthy(last.properties) THEN stored[k] = last.properties
                   ELSE IF k = "enum" /\ Truthy(last.enum) THEN stored[k] = last.enum
                   ELSE stored[k] = HelperDefinitions[CHOOSE i \in holders(k) :
                                                         \A j \in holders(k) : j <= i][k]
            /\ (_definition_helpers = <<>> /\ Truthy(last.properties) /\ ~Truthy(last.enum)) =>
                   stored = [k \in {"properties"} |-> last.properties]

\* a definition with two different helpers registered that both return 'properties',
\* a truthy literal properties and an empty literal enum
C8_Witness ==
    /\ last.op = "definition"
    /\ Len(_definition_helpers) = 2
    /\ _definition_helpers[1] # _definition_helpers[2]
    /\ Truthy(last.properties)
    /\ last.enum = "[]"
    /\ "enum" \in DOMAIN _definitions[last.name]

\* C9 as claimed: the corrected operation never holds operation_id or external_docs,
\* the value of every item is found under its corrected key (an alias's value under the
\* camelCase key, every other key's own value under that key), and correcting the
\* corrected mapping again returns it unchanged.
C9_CorrectionKeepsEveryValue ==
    last.op = "_serialize_operation" =>
        /\ DOMAIN last.result \cap {"operation_id", "external_docs"} = {}
        /\ DOMAIN last.result = {CamelCase(last.items[i][1]) : i \in 1..Len(last.items)}
        /\ \A i \in 1..Len(last.items) :
               last.result[CamelCase(last.items[i][1])] = last.items[i][2]
        /\ last.result_again = last.result

\* C9 as amended: the same, except that when the mapping holds both an alias and its
\* camelCase form, the camelCase key holds the value of whichever of the two comes
\* later in the mapping's iteration order, and the other value is dropped.
C9_CorrectionRenamesAliases ==
    last.op = "_serialize_operation" =>
        /\ DOMAIN last.result \cap {"operation_id", "external_docs"} = {}
        /\ DOMAIN last.result = {CamelCase(last.items[i][1]) : i \in 1..Len(last.items)}
        /\ \A i \in 1..Len(last.items) :
               LastForKey(last.items, i) =>
                   last.result[CamelCase(last.items[i][1])] = last.items[i][2]
        /\ last.result_again = last.result

\* a correction of a mapping that holds external_docs before externalDocs, with
\* different values
C9_Witness ==
    /\ last.op = "_serialize_operation"
    /\ Len(last.items) = 2
    /\ last.items[1][1] = "external_docs"
    /\ last.items[2][1] = "externalDocs"
    /\ last.items[1][2] # last.items[2][2]
    /\ last.result_again = last.result

\* C10: a successful add_path that resolves to a (path, method) pair already in _paths
\* stores exactly the operation of this call under the pair: no key that only the
\* operation stored before had survives.
C10_SecondCallOverwritesOperation ==
    [][ (last'.op = "add_path" /\ last'.exc = None /\ last'.replaced) =>
          LET e == path_entry(last'.path, last'.method, last'.operation) IN
          /\ _paths'[e.path][lower(e.method)] = e.operation
          /\ \A k \in DOMAIN _paths[e.path][lower(e.method)] \ DOMAIN e.operation :
                 k \notin DOMAIN _paths'[e.path][lower(e.method)] ]_vars

\* a second successful add_path for a pair, made without an operation and without
\* helpers, after which the pair's operation is empty
C10_Witness ==
    /\ last.op = "add_path"
    /\ last.exc = None
    /\ last.replaced
    /\ last.operation = NoOperation
    /\ _path_helpers = <<>>
    /\ _paths[last.path][lower(last.method)] = EmptyDict

\* C11: a definition call stores under its name exactly the accumulator it built (the
\* helper results in order, then the literal properties and enum), with nothing of an
\* earlier definition of that name; every other name keeps its definition, no name
\* disappears, and the paths are unchanged.
C11_DefinitionLastWriteWins ==
    [][ (last'.op = "definition" /\ last'.exc = None) =>
          /\ DOMAIN _definitions' = DOMAIN _definitions \cup {last'.name}
          /\ _definitions'[last'.name] =
                 definition_ret(last'.name, last'.properties, last'.enum)
          /\ \A k \in DOMAIN _definitions'[last'.name] :
                 \/ \E i \in 1..Len(_definition_helpers) :
                        k \in DOMAIN definition_helper(_definition_helpers[i], last'.name)
                 \/ k = "properties" /\ Truthy(last'.properties)
                 \/ k = "enum" /\ Truthy(last'.enum)
          /\ \A other \in DOMAIN _definitions \ {last'.name} :
                 _definitions'[other] = _definitions[other]
          /\ _paths' = _paths ]_vars

\* C11 witness: a name was defined again, without the properties a call gives, while
\* another name holds a definition with properties and a path is stored.
C11_Witness ==
    /\ last.op = "definition" /\ last.redefined /\ last.exc = None
    /\ _definition_helpers = <<>>
    /\ ~Truthy(last.properties) /\ Truthy(last.enum)
    /\ DOMAIN _definitions[last.name] = {"enum"}
    /\ \E other \in DOMAIN _definitions \ {last.name} :
          "properties" \in DOMAIN _definitions[other]
    /\ _paths # EmptyDict
\* C12: a successful add_path call touches one path and method pair only: every other
\* pair stored before the call, the other methods of the same path included, is stored
\* after it with the same operation; the definitions, the plugins and both helper lists
\* are unchanged.
C12_OtherPairsUntouched ==
    [][ (last'.op = "add_path" /\ last'.exc = None) =>
          LET e == path_entry(last'.path, last'.method, last'.operation) IN
          /\ \A p \in DOMAIN _paths : \A m \in DOMAIN _paths[p] :
                 (p # e.path \/ m # lower(e.method)) =>
                     /\ p \in DOMAIN _paths'
                     /\ m \in DOMAIN _paths'[p]
                     /\ _paths'[p][m] = _paths[p][m]
          /\ _definitions' = _definitions
          /\ _plugins' = _plugins
          /\ _definition_helpers' = _definition_helpers
          /\ _path_helpers' = _path_helpers ]_vars
\* C13: in one add_path call the helpers are called in registration order, each once,
\* and each with the caller's own path, method, operation and keyword arguments, never
\* with what an earlier helper contributed; when no helper raises, every registered
\* helper has been called by the time the entry is rendered, whether the rendering
\* succeeds or fails, and so before the paths are written.
C13_HelpersCalledInOrderWithLiterals ==
    last.op = "add_path" =>
        /\ Len(last.calls) <= Len(_path_helpers)
        /\ \A i \in 1..Len(last.calls) :
              /\ last.calls[i].func = _path_helpers[i]
              /\ last.calls[i].path = last.path
              /\ last.calls[i].method = last.method
              /\ last.calls[i].operation = last.operation
              /\ last.calls[i].kwargs = last.kwargs
        /\ last.exc \in {None, "APISpecError"} => Len(last.calls) = Len(_path_helpers)

\* C13 witness: a helper that supplies its own path and method ran before one that
\* passes its arguments through; the second received the caller's path and keyword.
C13_Witness ==
    /\ last.op = "add_path" /\ last.exc = None
    /\ _path_helpers = <<"H2", "H1">>
    /\ last.path = "/a" /\ last.method = "GET" /\ last.kwargs # NoKwargs
    /\ Len(last.calls) = 2
    /\ last.calls[2].func = "H1" /\ last.calls[2].path = "/a"
    /\ "/a" \in DOMAIN _paths
\* the last truthy element of a sequence of values, None when there is none
RECURSIVE LastTruthy(_)
LastTruthy(values) ==
    IF values = <<>> THEN None
    ELSE IF Truthy(values[Len(values)]) THEN values[Len(values)]
    ELSE LastTruthy(SubSeq(values, 1, Len(values) - 1))

\* the caller's path followed by the path of each helper's result, in registration order
PathsOffered ==
    << last.path >> \o [i \in 1..Len(_path_helpers) |->
        path_helper(_path_helpers[i], last.path, last.method, last.operation).path]

\* the caller's method followed by the method of each helper's result
MethodsOffered ==
    << last.method >> \o [i \in 1..Len(_path_helpers) |->
        path_helper(_path_helpers[i], last.path, last.method, last.operation).method]

\* C14: add_path stores under the last truthy path among the caller's path and the
\* helpers' paths, and under the last truthy method likewise; a falsy path or method of
\* a later helper clears nothing; the call fails only when no truthy path or no truthy
\* method was offered at all, so a call with path None succeeds when a helper supplies
\* a path.
C14_LastTruthyPathAndMethod ==
    last.op = "add_path" =>
        LET p == LastTruthy(PathsOffered)
            m == LastTruthy(MethodsOffered)
        IN  /\ (last.exc = None) = (p # None /\ m # None)
            /\ last.exc = None =>
                  /\ p \in DOMAIN _paths
                  /\ DOMAIN _paths[p] = {IF m \in {"GET", "get"} THEN "get" ELSE "post"}

\* C14 witness: the caller gave no path; the first helper supplied "/b" and the second
\* passed the caller's None through; the operation is stored under "/b".
C14_Witness ==
    /\ last.op = "add_path" /\ last.exc = None
    /\ last.path = None /\ last.method = None
    /\ _path_helpers = <<"H2", "H1">>
    /\ "/b" \in DOMAIN _paths /\ "post" \in DOMAIN _paths["/b"]
\* C15: merging an entry with a falsy path, a falsy method and an empty operation
\* leaves the receiver as it was; merging the same entry a second time changes nothing
\* more; a key of the receiver's operation stays, with its value unless the merged
\* entry defines that key.
C15_MergeIdentityAndRepeat ==
    last.op = "Path.update" =>
        /\ (~Truthy(last.path.path) /\ ~Truthy(last.path.method)
               /\ last.path.operation = EmptyDict) => last.once = last.self
        /\ last.twice = last.once
        /\ \A k \in DOMAIN last.self.operation :
              /\ k \in DOMAIN last.once.operation
              /\ k \notin DOMAIN last.path.operation =>
                    last.once.operation[k] = last.self.operation[k]

\* C15 witness: an entry with path, method and two operation keys received an entry
\* with an empty path, no method and an empty operation.
C15_Witness ==
    /\ last.op = "Path.update"
    /\ last.path = Path("", None, NoOperation)
    /\ last.self.path = "/a" /\ last.self.method = "GET"
    /\ DOMAIN last.self.operation = {"summary", "operationId"}
    /\ last.once = last.self /\ last.twice = last.self
\* the method names written in lower case only
LowerCaseMethods == {"get", "post"}

\* two method names that differ in letter case at most
SameButCase(m1, m2) ==
    \E names \in {{"GET", "get"}, {"POST", "Post", "post"}} : m1 \in names /\ m2 \in names

\* C16: every method key stored in the paths is written in lower case, whatever casing
\* the caller or a helper gave; and a call whose method differs from the previous
\* call's in letter case only, for the same path, lands on the pair the previous call
\* stored: it replaces that pair and adds no second key.
C16_MethodKeysAreLowerCase ==
    [][ /\ \A p \in DOMAIN _paths' : DOMAIN _paths'[p] \subseteq LowerCaseMethods
        /\ (/\ last.op = "add_path" /\ last.exc = None
            /\ last'.op = "add_path" /\ last'.exc = None
            /\ _path_helpers = <<>>
            /\ last'.path = last.path
            /\ SameButCase(last.method, last'.method)) =>
               /\ last'.replaced
               /\ DOMAIN _paths' = DOMAIN _paths
               /\ DOMAIN _paths'[last'.path] = DOMAIN _paths[last.path] ]_vars

\* C16 witness: a call with method "Post" replaced the pair stored under the key "post".
C16_Witness ==
    /\ last.op = "add_path" /\ last.exc = None /\ last.method = "Post"
    /\ last.replaced
    /\ _path_helpers = <<>>
    /\ DOMAIN _paths["/a"] = {"post"}

\* C17: a setup_plugin call ends without exhausting the call stack, and during it the
\* setup of any one plugin is entered at most once, also when a plugin's setup calls
\* setup_plugin for the plugin being set up.
C17_SetupEnteredOncePerCall ==
    [][ last'.op = "setup_plugin" =>
          /\ last'.exc # "RecursionError"
          /\ \A p \in PluginPaths : setup_calls'[p] <= setup_calls[p] + 1 ]_vars
\* C18: when a registered helper raises, at whatever position in its list, the add_path
\* or definition call ends with the helper's error, and the paths and the definitions
\* are what they were before the call.
C18_HelperErrorChangesNothing ==
    [][ /\ (/\ last'.op = "add_path"
            /\ \E i \in 1..Len(_path_helpers) : _path_helpers[i] = "HX") =>
               /\ last'.exc = "ValueError"
               /\ _paths' = _paths /\ _definitions' = _definitions
        /\ (/\ last'.op = "definition"
            /\ \E i \in 1..Len(_definition_helpers) : _definition_helpers[i] = "DX") =>
               /\ last'.exc = "ValueError"
               /\ _paths' = _paths /\ _definitions' = _definitions ]_vars

\* C18 witness: the second of two path helpers raised after the first had supplied a
\* path and a method; paths and definitions stored earlier are in the registry.
C18_Witness ==
    /\ last.op = "add_path" /\ last.exc = "ValueError"
    /\ _path_helpers = <<"H2", "HX">>
    /\ Len(last.calls) = 2
    /\ _paths # EmptyDict /\ "/b" \notin DOMAIN _paths
    /\ _definitions # EmptyDict
\* C19: no operation stored in the paths has the key operation_id or external_docs,
\* after any sequence of add_path calls with helpers whose results the Path
\* constructor built.
C19_NoAliasKeyStored ==
    \A p \in DOMAIN _paths : \A m \in DOMAIN _paths[p] :
        DOMAIN _paths[p][m] \cap {"operation_id", "external_docs"} = {}

\* C19 witness: the caller's operation had both aliases and a helper's result had
\* operation_id; the stored operation has the corrected keys.
C19_Witness ==
    /\ last.op = "add_path" /\ last.exc = None
    /\ {last.operation.items[i][1] : i \in 1..Len(last.operation.items)}
          = {"operation_id", "external_docs"}
    /\ _path_helpers = <<"H1", "H2">>
    /\ DOMAIN _paths["/b"]["post"] = {"operationId", "externalDocs", "summary"}
====
